---- MODULE Spec2Model ----
(***************************************************************************)
(* A model of the vvile modal editor core: grapheme-indexed lines, the     *)
(* text buffer, the viewport recompute and the (mode, key) dispatch of     *)
(* src/lib/editor.rs and src/lib/keyhandler.rs.                            *)
(*                                                                         *)
(* Text is a sequence of code points.  Each code point carries its UTF-8   *)
(* width and its grapheme-break class, so that byte offsets and grapheme   *)
(* columns are different numbers, as they are in the program.              *)
(***************************************************************************)
EXTENDS Integers, Sequences, FiniteSets, TLC

VARIABLES
    driver,     \* which dispatch loop runs: "handle_keys" (editor.rs) or "process_key" (keyhandler.rs)
    status,     \* "running", "quit" (quit chord), "error" (handler returned Err), "panicked"
    mode,       \* Editor.mode
    lines,      \* Editor.buffer.lines : sequence of Line records [raw, graphemes]
    cursor,     \* Editor.cursor : [x, y]
    offset_x,   \* Editor.view.offset_x
    offset_y,   \* Editor.view.offset_y
    key,        \* the key event (or API call) processed last
    viewed,     \* TRUE iff update_view ran to completion while the last key event was processed
    contents,   \* the text of the file on disk that the file API reads (driver "file_api")
    ret         \* the value returned by the last Buffer/file API call

vars == <<driver, status, mode, lines, cursor, offset_x, offset_y, key, viewed, contents, ret>>

-----------------------------------------------------------------------------
(* Bounds of the model *)

\* a character is offered to Insert mode while the buffer holds fewer code points
MaxChars == 2
\* a tab is offered to Insert mode while the buffer holds at most this many code points
MaxTabChars == 1
\* number of lines the buffer may hold before newline stops being offered
MaxLines == 3
\* terminal height reported by terminal_size()
Rows == 2
\* terminal width reported by terminal_size()
Cols == 2
\* longest file text offered to read_file
MaxText == 4
\* a Line called directly holds at most this many code points
MaxLineChars == 3

\* let tab_width = 4;
tab_width == 4

-----------------------------------------------------------------------------
(* Code points: UTF-8 width and grapheme-break class *)

\* "a" U+0061, " " U+0020, "acute" U+0301 (combining acute accent),
\* "zwj" U+200D, "woman" U+1F469, "LF" U+000A, "CR" U+000D
CodePoints == {"a", " ", "acute", "zwj", "woman", "LF", "CR"}

\* char::len_utf8
Utf8Len(c) ==
    CASE c \in {"a", " ", "LF", "CR"} -> 1
      [] c = "acute" -> 2
      [] c = "zwj" -> 3
      [] c = "woman" -> 4

\* Grapheme_Cluster_Break property (UAX #29) of the code points above
GraphemeClass(c) ==
    CASE c = "acute" -> "Extend"
      [] c = "zwj" -> "ZWJ"
      [] c = "woman" -> "ExtPict"
      [] c = "LF" -> "LF"
      [] c = "CR" -> "CR"
      [] OTHER -> "Other"

RECURSIVE ByteOffset(_, _)
\* number of bytes taken by the first k code points of raw
ByteOffset(raw, k) ==
    IF k = 0 THEN 0 ELSE ByteOffset(raw, k - 1) + Utf8Len(raw[k])

\* String::len : length in bytes
ByteLen(raw) == ByteOffset(raw, Len(raw))

\* str::is_char_boundary
IsCharBoundary(raw, b) == \E k \in 0..Len(raw) : ByteOffset(raw, k) = b

\* the number of code points before byte offset b (b a char boundary)
CharIndex(raw, b) == CHOOSE k \in 0..Len(raw) : ByteOffset(raw, k) = b

RECURSIVE EmojiBefore(_, _)
\* GB11 look-behind: raw[1..j] ends with ExtPict Extend*
EmojiBefore(raw, j) ==
    /\ j >= 1
    /\ \/ GraphemeClass(raw[j]) = "ExtPict"
       \/ GraphemeClass(raw[j]) = "Extend" /\ EmojiBefore(raw, j - 1)

\* UAX #29 extended grapheme cluster rules: is there a boundary before raw[i], i >= 2
GraphemeBreak(raw, i) ==
    LET prev == GraphemeClass(raw[i - 1])
        cur == GraphemeClass(raw[i])
    IN  IF prev = "CR" /\ cur = "LF" THEN FALSE                 \* GB3
        ELSE IF prev \in {"CR", "LF"} THEN TRUE                 \* GB4
        ELSE IF cur \in {"CR", "LF"} THEN TRUE                  \* GB5
        ELSE IF cur \in {"Extend", "ZWJ"} THEN FALSE            \* GB9
        ELSE IF prev = "ZWJ" /\ cur = "ExtPict" /\ EmojiBefore(raw, i - 2)
             THEN FALSE                                         \* GB11
        ELSE TRUE                                               \* GB999

RECURSIVE grapheme_indices(_, _)
\* the byte offsets of the grapheme starts among raw[i..], in order
grapheme_indices(raw, i) ==
    IF i > Len(raw) THEN <<>>
    ELSE IF i = 1 \/ GraphemeBreak(raw, i)
         THEN <<ByteOffset(raw, i - 1)>> \o grapheme_indices(raw, i + 1)
         ELSE grapheme_indices(raw, i + 1)

-----------------------------------------------------------------------------
(* Line *)

\* rebuild without the final offsets.push(self.raw.len())
rebuild_without_end(raw) == grapheme_indices(raw, 1)

\* Line::rebuild : the boundary index of raw
rebuild(raw) == grapheme_indices(raw, 1) \o <<ByteLen(raw)>>

\* Line::new
LineNew == [raw |-> <<>>, graphemes |-> <<0>>]

\* Line::from_string
from_string(s) == [raw |-> s, graphemes |-> rebuild(s)]

\* Line::grapheme_len : graphemes.len().saturating_sub(1)
grapheme_len(line) == IF Len(line.graphemes) = 0 THEN 0 ELSE Len(line.graphemes) - 1

\* Line::insert indexes graphemes[i]: out of bounds panics
LineInsertPanics(line, i) == i >= Len(line.graphemes)

\* Line::insert without the rebuild of the boundary index
LineInsert_stale(line, i, c) ==
    LET byte_offset == line.graphemes[i + 1]
        k == CharIndex(line.raw, byte_offset)
    IN  [raw |-> SubSeq(line.raw, 1, k) \o <<c>> \o SubSeq(line.raw, k + 1, Len(line.raw)),
         graphemes |-> line.graphemes]

\* Line::insert
LineInsert(line, i, c) ==
    LET byte_offset == line.graphemes[i + 1]
        k == CharIndex(line.raw, byte_offset)
    IN  from_string(SubSeq(line.raw, 1, k) \o <<c>> \o SubSeq(line.raw, k + 1, Len(line.raw)))

\* Line::remove indexes graphemes[i] and graphemes[i + 1]
LineRemovePanics(line, i) == i + 1 >= Len(line.graphemes)

\* Line::remove deleting only the first code point of grapheme i
LineRemove_first_char(line, i) ==
    LET start == CharIndex(line.raw, line.graphemes[i + 1])
    IN  from_string(SubSeq(line.raw, 1, start) \o SubSeq(line.raw, start + 2, Len(line.raw)))

\* Line::remove
LineRemove(line, i) ==
    LET start == CharIndex(line.raw, line.graphemes[i + 1])
        end == CharIndex(line.raw, line.graphemes[i + 2])
    IN  from_string(SubSeq(line.raw, 1, start) \o SubSeq(line.raw, end + 1, Len(line.raw)))

\* Line::push_str
push_str(line, s) == from_string(line.raw \o s)

\* Option::None of grapheme_at (no code point is named "None")
None == <<"None">>

\* Line::grapheme_at : the code points of grapheme i, or None
grapheme_at(line, i) ==
    IF i + 2 > Len(line.graphemes) THEN None
    ELSE SubSeq(line.raw,
                CharIndex(line.raw, line.graphemes[i + 1]) + 1,
                CharIndex(line.raw, line.graphemes[i + 2]))

-----------------------------------------------------------------------------
(* Buffer *)

\* Buffer::default
BufferDefault == <<LineNew>>

\* Buffer::line_count
line_count(ls) == Len(ls)

\* Buffer::line_at : the raw text of line y, "" when y is out of range
line_at(ls, y) == IF y + 1 <= Len(ls) THEN ls[y + 1].raw ELSE <<>>

RECURSIVE GrowTo(_, _)
\* the while loop of insert_char: push empty lines until ls.len() > y
GrowTo(ls, y) == IF Len(ls) <= y THEN GrowTo(Append(ls, LineNew), y) ELSE ls

\* Buffer::insert_char panics when Line::insert does
InsertCharPanics(ls, loc) == LineInsertPanics(GrowTo(ls, loc.y)[loc.y + 1], loc.x)

\* Buffer::insert_char
insert_char(ls, loc, c) ==
    LET grown == GrowTo(ls, loc.y)
    IN  [grown EXCEPT ![loc.y + 1] = LineInsert(@, loc.x, c)]

\* Vec::remove(i) : the vector without element i (0-based)
VecRemove(v, i) == SubSeq(v, 1, i) \o SubSeq(v, i + 2, Len(v))

\* Buffer::delete_char panics on an index past the lines or past the graphemes
DeleteCharPanics(ls, loc) ==
    LET nonempty == IF Len(ls) = 0 THEN <<LineNew>> ELSE ls
    IN  IF loc.y = 0 /\ loc.x = 0 THEN FALSE
        ELSE IF loc.x > 0
             THEN \/ loc.y >= Len(nonempty)
                  \/ LineRemovePanics(nonempty[loc.y + 1], loc.x - 1)
             ELSE loc.y >= Len(nonempty)

\* delete_char whose line join forgets to push the removed line's text
delete_char_drops_text(ls, loc) ==
    LET nonempty == IF Len(ls) = 0 THEN <<LineNew>> ELSE ls
    IN  IF loc.y = 0 /\ loc.x = 0 THEN ls
        ELSE IF loc.x > 0
             THEN [nonempty EXCEPT ![loc.y + 1] = LineRemove(@, loc.x - 1)]
             ELSE VecRemove(nonempty, loc.y)

\* Buffer::delete_char : the lines afterwards
delete_char(ls, loc) ==
    LET nonempty == IF Len(ls) = 0 THEN <<LineNew>> ELSE ls
    IN  IF loc.y = 0 /\ loc.x = 0 THEN ls
        ELSE IF loc.x > 0
             THEN [nonempty EXCEPT ![loc.y + 1] = LineRemove(@, loc.x - 1)]
             ELSE LET current_line == nonempty[loc.y + 1]
                      removed == VecRemove(nonempty, loc.y)
                  IN  [removed EXCEPT ![loc.y] = push_str(@, current_line.raw)]

\* delete_char returning true on every path
delete_char_ret_always(loc) == loc.y >= 0

\* Buffer::delete_char : the value returned
delete_char_ret(loc) == ~(loc.y = 0 /\ loc.x = 0)

RECURSIVE Join(_)
\* [&str]::join("\n")
Join(strs) ==
    IF Len(strs) = 0 THEN <<>>
    ELSE IF Len(strs) = 1 THEN strs[1]
    ELSE strs[1] \o <<"LF">> \o Join(Tail(strs))

\* buffer_to_string without the pop of an empty last line
buffer_to_string_keeps_last(ls) == Join([i \in 1..Len(ls) |-> ls[i].raw])

\* Buffer::buffer_to_string
buffer_to_string(ls) ==
    LET out == [i \in 1..Len(ls) |-> ls[i].raw]
        popped == IF Len(out) > 0 /\ out[Len(out)] = <<>>
                  THEN SubSeq(out, 1, Len(out) - 1) ELSE out
    IN  Join(popped)

RECURSIVE split_inclusive(_, _)
\* str::split_inclusive('\n') : cur is the piece being collected
split_inclusive(text, cur) ==
    IF Len(text) = 0 THEN (IF Len(cur) = 0 THEN <<>> ELSE <<cur>>)
    ELSE IF Head(text) = "LF"
         THEN <<Append(cur, "LF")>> \o split_inclusive(Tail(text), <<>>)
         ELSE split_inclusive(Tail(text), Append(cur, Head(text)))

\* the closure of str::lines : strip one trailing "\n", then one trailing "\r"
StripLineEnding(piece) ==
    IF Len(piece) > 0 /\ piece[Len(piece)] = "LF"
    THEN LET l == SubSeq(piece, 1, Len(piece) - 1)
         IN  IF Len(l) > 0 /\ l[Len(l)] = "CR" THEN SubSeq(l, 1, Len(l) - 1) ELSE l
    ELSE piece

\* str::lines
str_lines(text) ==
    LET pieces == split_inclusive(text, <<>>)
    IN  [i \in 1..Len(pieces) |-> StripLineEnding(pieces[i])]

\* str::ends_with('\n')
ends_with_newline(text) == Len(text) > 0 /\ text[Len(text)] = "LF"

\* read_file without the empty line pushed for a trailing newline
read_file_no_trailing_line(text) ==
    LET ls == str_lines(text)
        input == [i \in 1..Len(ls) |-> from_string(ls[i])]
    IN  IF Len(input) = 0 THEN <<LineNew>> ELSE input

\* Buffer::read_file on a file whose text is text : the lines afterwards
read_file(text) ==
    LET ls == str_lines(text)
        input == [i \in 1..Len(ls) |-> from_string(ls[i])]
        pushed == IF ends_with_newline(text) THEN Append(input, LineNew) ELSE input
    IN  IF Len(pushed) = 0 THEN <<LineNew>> ELSE pushed

-----------------------------------------------------------------------------
(* Cursor: movement and scroll computation *)

Min(a, b) == IF a < b THEN a ELSE b

\* usize::saturating_sub
saturating_sub(a, b) == IF a > b THEN a - b ELSE 0

\* Cursor::move_left : at column 0 of a non-first row, to the end of the previous row
move_left(cur, ls) ==
    IF cur.x > 0 THEN [cur EXCEPT !.x = @ - 1]
    ELSE IF cur.y > 0 THEN [x |-> grapheme_len(ls[cur.y]), y |-> cur.y - 1]
    ELSE cur

\* Cursor::move_right : at the end of a row, to column 0 of the next row if there is one
move_right(cur, ls) ==
    IF cur.x < grapheme_len(ls[cur.y + 1]) THEN [cur EXCEPT !.x = @ + 1]
    ELSE IF cur.y + 1 < line_count(ls) THEN [x |-> 0, y |-> cur.y + 1]
    ELSE cur

\* Cursor::move_up : x clamped to the destination row's grapheme length
move_up(cur, ls) ==
    LET y == IF cur.y > 0 THEN cur.y - 1 ELSE cur.y
    IN  [x |-> Min(cur.x, grapheme_len(ls[y + 1])), y |-> y]

\* Cursor::move_down : x clamped to the destination row's grapheme length
move_down(cur, ls) ==
    LET y == IF cur.y + 1 < line_count(ls) THEN cur.y + 1 ELSE cur.y
    IN  [x |-> Min(cur.x, grapheme_len(ls[y + 1])), y |-> y]

\* Cursor::maybe_scroll : per axis, the offset that brings the cursor into the window
maybe_scroll(cur, ox, oy) ==
    [x |-> IF cur.x < ox THEN cur.x
           ELSE IF cur.x >= ox + Cols THEN cur.x - Cols + 1
           ELSE ox,
     y |-> IF cur.y < oy THEN cur.y
           ELSE IF cur.y >= oy + Rows THEN cur.y - Rows + 1
           ELSE oy]

-----------------------------------------------------------------------------
(* Editor: viewport recompute, rendering, delete under cursor *)

\* Editor::update_view indexes buffer.lines[new_offset_y]
update_view_panics(ls, cur, ox, oy) == maybe_scroll(cur, ox, oy).y >= Len(ls)

\* Editor::update_view : the offsets afterwards
update_view(ls, cur, ox, oy) ==
    LET new == maybe_scroll(cur, ox, oy)
        line == ls[new.y + 1]
        current_line_len == grapheme_len(line)
        max_offset_y == saturating_sub(line_count(ls), Rows)
    IN  [offset_x |-> Min(new.x, current_line_len),
         offset_y |-> Min(new.y, max_offset_y)]

\* View::render slices buffer.lines[start_line..end_line]: start past end panics
render_panics(ls, oy) == oy > Min(oy + Rows, line_count(ls))

\* delete_under_cursor dropping the cursor's row at end of line instead of joining the next row
delete_under_cursor_drops_row(ls, cur) ==
    LET line_len == grapheme_len(ls[cur.y + 1])
    IN  IF cur.x < line_len
        THEN [ls EXCEPT ![cur.y + 1] = LineRemove(@, cur.x)]
        ELSE VecRemove(ls, cur.y)

\* View::render : Vec::get(i).unwrap_or(&raw.len()) on the boundary index
boundary_or_len(line, i) ==
    IF i < Len(line.graphemes) THEN line.graphemes[i + 1] ELSE ByteLen(line.raw)

\* the row of render that slices the raw text at code point offset_x, not through
\* the boundary index
visible_by_chars(line, ox) ==
    SubSeq(line.raw, Min(ox, Len(line.raw)) + 1, Min(ox + Cols, Len(line.raw)))

\* View::render : the row written for one line
visible(line, ox) ==
    LET start_grapheme == Min(ox, grapheme_len(line))
        end_grapheme == Min(start_grapheme + Cols, grapheme_len(line))
        start_byte == boundary_or_len(line, start_grapheme)
        end_byte == boundary_or_len(line, end_grapheme)
    IN  SubSeq(line.raw, CharIndex(line.raw, start_byte) + 1, CharIndex(line.raw, end_byte))

\* View::render : the rows written, one per line of lines[start_line..end_line]
render(ls, ox, oy) ==
    LET start_line == oy
        end_line == Min(start_line + Rows, line_count(ls))
    IN  [i \in 1..(end_line - start_line) |-> visible(ls[start_line + i], ox)]

\* delete_under_cursor removing the cursor's row together with the next one at end of line
delete_under_cursor_drops_both(ls, cur) ==
    LET line_len == grapheme_len(ls[cur.y + 1])
    IN  IF cur.x < line_len
        THEN [ls EXCEPT ![cur.y + 1] = LineRemove(@, cur.x)]
        ELSE SubSeq(ls, 1, cur.y) \o SubSeq(ls, cur.y + 3, Len(ls))

\* delete_under_cursor joining at end of line without removing the next row
delete_under_cursor_keeps_next(ls, cur) ==
    LET line_len == grapheme_len(ls[cur.y + 1])
    IN  IF cur.x < line_len
        THEN [ls EXCEPT ![cur.y + 1] = LineRemove(@, cur.x)]
        ELSE IF cur.y + 1 < line_count(ls)
             THEN [ls EXCEPT ![cur.y + 1] = push_str(@, ls[cur.y + 2].raw)]
             ELSE ls

\* Editor::delete_under_cursor : the lines afterwards
delete_under_cursor(ls, cur) ==
    LET line_len == grapheme_len(ls[cur.y + 1])
    IN  IF cur.x < line_len
        THEN [ls EXCEPT ![cur.y + 1] = LineRemove(@, cur.x)]
        ELSE IF cur.y + 1 < line_count(ls)
             THEN LET next == ls[cur.y + 2]
                      removed == VecRemove(ls, cur.y + 1)
                  IN  [removed EXCEPT ![cur.y + 1] = push_str(@, next.raw)]
             ELSE ls

-----------------------------------------------------------------------------
(* Inputs *)

\* the symbolic key events offered to the dispatch loop; "a", "acute", ":", "i",
\* "x", "s", "v" are Key::Char, "Enter" is Key::Char('\n'), "Tab" is Key::Char('\t')
Keys == {":", "a", "i", "x", "s", "v", "acute", "Enter", "Tab", "Backspace",
         "Esc", "Left", "Right", "Up", "Down", "Ctrl-s", "Ctrl-q"}

Arrows == {"Left", "Right", "Up", "Down"}

\* the characters typed in Insert mode
InsertChars == {"a", "acute"}

\* the files offered to open_file before the dispatch loop starts: no file
\* argument (the empty untitled buffer) and a two-line file "aa\na\u{301}"
InitFiles == {<<>>, <<"a", "a", "LF", "a", "acute">>}

\* the characters of the files offered to read_file
FileChars == {"a", "LF", "CR"}

RECURSIVE TextsOfLen(_)
TextsOfLen(n) ==
    IF n = 0 THEN {<<>>}
    ELSE {Append(t, c) : t \in TextsOfLen(n - 1), c \in FileChars}

\* every file text of at most MaxText code points
Texts == UNION {TextsOfLen(n) : n \in 0..MaxText}

RECURSIVE TotalChars(_)
\* the number of code points in the buffer
TotalChars(ls) == IF Len(ls) = 0 THEN 0 ELSE Len(Head(ls).raw) + TotalChars(Tail(ls))

EditorDrivers == {"handle_keys", "process_key"}

\* the characters handed to Line::insert called directly
LineChars == {"a", "acute", "zwj", "woman"}

\* the strings handed to Line::push_str called directly
PushStrs == {<<"a">>, <<"acute">>, <<"woman", "zwj">>, <<"woman", "zwj", "woman">>}

NoRet == [tag |-> "none"]

-----------------------------------------------------------------------------
(* Initial state: Editor::default, optionally followed by open_file *)

Init ==
    /\ driver \in EditorDrivers \cup {"buffer_api", "file_api", "line_api", "open_api",
                                        "main_rs"}
    /\ status = "running"
    /\ mode = "Normal"
    /\ offset_y = 0
    /\ key = "none"
    /\ viewed = FALSE
    /\ ret = NoRet
    /\ CASE driver = "file_api" -> contents \in Texts /\ lines = BufferDefault
         [] driver = "line_api" -> contents = <<>> /\ lines = <<LineNew>>
         [] driver = "open_api" ->
                /\ contents = <<>>
                /\ \E text \in InitFiles : lines = read_file(text)
         [] OTHER -> contents = <<>> /\ \E text \in InitFiles : lines = read_file(text)
    /\ IF driver = "open_api"
       THEN \* open_file called on an editor in use: the cursor at column 0, or at
            \* column Cols of row 0 with the viewport scrolled after it
            \E x \in {0, Cols} :
                /\ x <= grapheme_len(lines[1])
                /\ cursor = [x |-> x, y |-> 0]
                /\ offset_x = update_view(lines, cursor, 0, 0).offset_x
       ELSE cursor = [x |-> 0, y |-> 0] /\ offset_x = 0

-----------------------------------------------------------------------------
(* The dispatch loop: one action per (mode, key) arm *)

\* the tail of every arm: the mutation is in place, update_view runs if the arm
\* calls it, then the loop renders (handle_keys only)
CommitRet(ls, cur, mView, mEnd, view, r) ==
    /\ lines' = ls
    /\ cursor' = cur
    /\ ret' = r
    /\ UNCHANGED <<driver, contents>>
    /\ viewed' = (view /\ ~update_view_panics(ls, cur, offset_x, offset_y))
    /\ IF view /\ update_view_panics(ls, cur, offset_x, offset_y)
       THEN /\ status' = "panicked"
            /\ mode' = mView
            /\ UNCHANGED <<offset_x, offset_y>>
       ELSE LET v == IF view THEN update_view(ls, cur, offset_x, offset_y)
                     ELSE [offset_x |-> offset_x, offset_y |-> offset_y]
            IN  /\ offset_x' = v.offset_x
                /\ offset_y' = v.offset_y
                /\ mode' = mEnd
                /\ status' = IF driver = "handle_keys" /\ render_panics(ls, v.offset_y)
                             THEN "panicked" ELSE "running"

Commit(ls, cur, mView, mEnd, view) == CommitRet(ls, cur, mView, mEnd, view, NoRet)

\* a panic before any mutation of the arm
Panic ==
    /\ status' = "panicked"
    /\ viewed' = FALSE
    /\ ret' = NoRet
    /\ UNCHANGED <<driver, contents, mode, lines, cursor, offset_x, offset_y>>

Dispatching(m) == driver \in EditorDrivers /\ status = "running" /\ mode = m

\* the mode arms with ':' and 'v' swapped
set_mode_target_swapped(k) ==
    CASE k = ":" -> "Visual" [] k = "i" -> "Edit" [] k = "v" -> "Command"

\* Normal: ':' => Command, 'i' => Edit, 'v' => Visual
set_mode_target(k) == CASE k = ":" -> "Command" [] k = "i" -> "Edit" [] k = "v" -> "Visual"

NormalSetMode ==
    \E k \in {":", "i", "v"} :
        /\ Dispatching("Normal")
        /\ key' = k
        /\ Commit(lines, cursor, mode, set_mode_target(k), FALSE)

\* Normal 'a': the cursor after the arm
append_cursor(ls, cur) ==
    LET line_len == ByteLen(line_at(ls, cur.y))
    IN  IF cur.x < line_len THEN [cur EXCEPT !.x = @ + 1]
        ELSE IF cur.y + 1 < line_count(ls) THEN [x |-> 0, y |-> cur.y + 1]
        ELSE cur

NormalA ==
    /\ Dispatching("Normal")
    /\ key' = "a"
    /\ Commit(lines, append_cursor(lines, cursor), mode, "Edit", FALSE)

\* Normal 'x' and 's': delete_under_cursor, update_view; 's' then enters Edit
NormalDelete ==
    \E k \in {"x", "s"} :
        /\ Dispatching("Normal")
        /\ key' = k
        /\ Commit(delete_under_cursor(lines, cursor), cursor, mode,
                  IF k = "s" THEN "Edit" ELSE mode, TRUE)

\* Editor::handle_cursor
handle_cursor(k, cur, ls) ==
    CASE k = "Left" -> move_left(cur, ls)
      [] k = "Right" -> move_right(cur, ls)
      [] k = "Up" -> move_up(cur, ls)
      [] k = "Down" -> move_down(cur, ls)
      [] OTHER -> cur

\* arrow keys, in Normal and in Edit mode
ArrowKey ==
    \E k \in Arrows :
        /\ driver \in EditorDrivers /\ status = "running" /\ mode \in {"Normal", "Edit"}
        /\ key' = k
        /\ Commit(lines, handle_cursor(k, cursor, lines), mode, mode, TRUE)

\* Normal Ctrl-s: write_file(current_file)?, the write succeeds or fails
NormalSave ==
    \E ok \in BOOLEAN :
        /\ Dispatching("Normal")
        /\ key' = "Ctrl-s"
        /\ IF ok
           THEN /\ CommitRet(lines, cursor, mode, mode, FALSE,
                             [tag |-> "write", text |-> buffer_to_string(lines)])
           ELSE /\ status' = "error"
                /\ viewed' = FALSE
                            /\ ret' = NoRet
                /\ UNCHANGED <<driver, contents, mode, lines, cursor, offset_x, offset_y>>

\* Normal Ctrl-q: break (handle_keys) or std::process::exit(0) (process_key)
NormalQuit ==
    /\ Dispatching("Normal")
    /\ key' = "Ctrl-q"
    /\ status' = "quit"
    /\ viewed' = FALSE
    /\ ret' = NoRet
    /\ UNCHANGED <<driver, contents, mode, lines, cursor, offset_x, offset_y>>

\* the keys offered to the `_ => {}` arm of each mode
Unlisted(m) ==
    CASE m = "Normal" -> {"Enter", "Backspace", "Esc"}
      [] m = "Edit" -> {"Ctrl-s", "Ctrl-q"}
      [] OTHER -> {"a", "Left", "Ctrl-s", "Ctrl-q"}

\* the `_ => {}` arm with the quit chord acting in every mode
OtherKeyQuits ==
    \E k \in Unlisted(mode) :
        /\ driver \in EditorDrivers /\ status = "running"
        /\ key' = k
        /\ IF k = "Ctrl-q"
           THEN /\ status' = "quit"
                /\ viewed' = FALSE
                /\ ret' = NoRet
                /\ UNCHANGED <<driver, contents, mode, lines, cursor, offset_x, offset_y>>
           ELSE Commit(lines, cursor, mode, mode, FALSE)

OtherKey ==
    \E k \in Unlisted(mode) :
        /\ driver \in EditorDrivers /\ status = "running"
        /\ key' = k
        /\ Commit(lines, cursor, mode, mode, FALSE)

\* Esc in Edit, Command and Visual: set_mode(Normal), update_view
EscKey ==
    /\ driver \in EditorDrivers /\ status = "running"
    /\ mode \in {"Edit", "Command", "Visual"}
    /\ key' = "Esc"
    /\ Commit(lines, cursor, "Normal", "Normal", TRUE)

\* Edit '\n': the byte offset handed to split_at, cursor.x itself in handle_keys,
\* graphemes[cursor.x] in process_key
split_offset(d, ls, cur) ==
    IF d = "handle_keys" THEN cur.x ELSE ls[cur.y + 1].graphemes[cur.x + 1]

\* Edit '\n' panics: graphemes[cursor.x] out of bounds, or split_at off a char boundary
newline_panics(d, ls, cur) ==
    \/ d = "process_key" /\ cur.x >= Len(ls[cur.y + 1].graphemes)
    \/ ~IsCharBoundary(line_at(ls, cur.y), split_offset(d, ls, cur))

\* Vec::insert(i, e) (0-based)
VecInsert(v, i, e) == SubSeq(v, 1, i) \o <<e>> \o SubSeq(v, i + 1, Len(v))

\* Edit '\n': the lines afterwards
newline_lines(d, ls, cur) ==
    LET cur_line == line_at(ls, cur.y)
        k == CharIndex(cur_line, split_offset(d, ls, cur))
        left == SubSeq(cur_line, 1, k)
        right == SubSeq(cur_line, k + 1, Len(cur_line))
    IN  VecInsert([ls EXCEPT ![cur.y + 1] = from_string(left)], cur.y + 1, from_string(right))

EditNewline ==
    /\ Dispatching("Edit")
    /\ line_count(lines) < MaxLines
    /\ key' = "Enter"
    /\ IF newline_panics(driver, lines, cursor)
       THEN Panic
       ELSE Commit(newline_lines(driver, lines, cursor), [x |-> 0, y |-> cursor.y + 1],
                   mode, mode, TRUE)

\* Edit '\t': the column of the next tab stop
target_col(x) == ((x \div tab_width) + 1) * tab_width

RECURSIVE insert_spaces(_, _, _)
\* Edit '\t': the loop `for _ in 0..spaces_needed { insert_char(cursor, ' ') }`
insert_spaces(ls, loc, n) ==
    IF n = 0 THEN [panic |-> FALSE, lines |-> ls]
    ELSE IF InsertCharPanics(ls, loc) THEN [panic |-> TRUE, lines |-> ls]
    ELSE insert_spaces(insert_char(ls, loc, " "), loc, n - 1)

EditTab ==
    /\ Dispatching("Edit")
    /\ TotalChars(lines) <= MaxTabChars
    /\ key' = "Tab"
    /\ LET spaces_needed == target_col(cursor.x) - cursor.x
           r == insert_spaces(lines, cursor, spaces_needed)
       IN  IF r.panic
           THEN /\ status' = "panicked"
                /\ lines' = r.lines
                /\ viewed' = FALSE
                            /\ ret' = NoRet
                /\ UNCHANGED <<driver, contents, mode, cursor, offset_x, offset_y>>
           ELSE Commit(r.lines, [cursor EXCEPT !.x = target_col(cursor.x)], mode, mode, TRUE)

\* Edit Key::Char(c): insert_char at the cursor, cursor.x += 1
EditChar ==
    \E c \in InsertChars :
        /\ Dispatching("Edit")
        /\ TotalChars(lines) < MaxChars
        /\ key' = c
        /\ IF InsertCharPanics(lines, cursor)
           THEN Panic
           ELSE Commit(insert_char(lines, cursor, c), [cursor EXCEPT !.x = @ + 1],
                       mode, mode, TRUE)

\* Edit Backspace: the cursor after the arm
backspace_cursor(ls, cur) ==
    IF cur.x = 0 /\ cur.y > 0
    THEN LET prev_len == grapheme_len(ls[cur.y])
         IN  [x |-> Min(prev_len, cur.x), y |-> cur.y - 1]
    ELSE IF cur.x > 0 THEN [cur EXCEPT !.x = @ - 1]
    ELSE cur

\* Edit Backspace: delete_under_cursor, then the cursor steps back
EditBackspace ==
    /\ Dispatching("Edit")
    /\ key' = "Backspace"
    /\ LET ls == delete_under_cursor(lines, cursor)
       IN  Commit(ls, backspace_cursor(ls, cursor), mode, mode, TRUE)

-----------------------------------------------------------------------------
(* The Buffer API called directly (driver "buffer_api"), and the file API *)

\* Buffer::insert_char(&loc, c)
ApiInsertChar ==
    \E x \in 0..MaxChars, y \in 0..(MaxLines - 1), c \in InsertChars :
        /\ driver = "buffer_api" /\ status = "running"
        /\ TotalChars(lines) < MaxChars
        /\ key' = "insert_char"
        /\ cursor' = [x |-> x, y |-> y]
        /\ ret' = NoRet
        /\ IF InsertCharPanics(lines, [x |-> x, y |-> y])
           THEN status' = "panicked" /\ lines' = GrowTo(lines, y)
           ELSE status' = "running" /\ lines' = insert_char(lines, [x |-> x, y |-> y], c)
        /\ UNCHANGED <<driver, contents, mode, offset_x, offset_y, viewed>>

\* Buffer::delete_char(&loc)
ApiDeleteChar ==
    \E x \in 0..MaxChars, y \in 0..(MaxLines - 1) :
        /\ driver = "buffer_api" /\ status = "running"
        /\ key' = "delete_char"
        /\ cursor' = [x |-> x, y |-> y]
        /\ IF DeleteCharPanics(lines, [x |-> x, y |-> y])
           THEN status' = "panicked" /\ ret' = NoRet /\ UNCHANGED lines
           ELSE /\ status' = "running"
                /\ lines' = delete_char(lines, [x |-> x, y |-> y])
                /\ ret' = [tag |-> "bool", val |-> delete_char_ret([x |-> x, y |-> y])]
        /\ UNCHANGED <<driver, contents, mode, offset_x, offset_y, viewed>>

\* Buffer::read_file on the file whose text is contents
ApiReadFile ==
    /\ driver = "file_api" /\ status = "running"
    /\ key' = "read_file"
    /\ lines' = read_file(contents)
    /\ ret' = [tag |-> "ok"]
    /\ UNCHANGED <<driver, status, contents, mode, cursor, offset_x, offset_y, viewed>>

\* Buffer::buffer_to_string
ApiBufferToString ==
    /\ driver = "file_api" /\ status = "running"
    /\ key' = "buffer_to_string"
    /\ ret' = [tag |-> "string", text |-> buffer_to_string(lines)]
    /\ UNCHANGED <<driver, status, contents, mode, lines, cursor, offset_x, offset_y, viewed>>

-----------------------------------------------------------------------------
(* Editor::open_file called directly (driver "open_api") *)

\* what read_file meets at the path: a file, no file, or another I/O error
OpenOutcomes == {"found", "not_found", "io_error"}

\* the texts of the files opened
OpenTexts == InitFiles \cup {<<"a", "LF">>}

\* open_file that starts empty on every error, not only on NotFound
open_file_swallows_errors(ls, ox, oy, outcome, text) ==
    IF outcome = "found"
    THEN [ret |-> [tag |-> "Ok"], lines |-> read_file(text), offset_x |-> 0, offset_y |-> 0]
    ELSE [ret |-> [tag |-> "Ok"], lines |-> BufferDefault, offset_x |-> 0, offset_y |-> 0]

\* Editor::open_file : the result, the lines and the offsets afterwards
open_file(ls, ox, oy, outcome, text) ==
    CASE outcome = "found" ->
            [ret |-> [tag |-> "Ok"], lines |-> read_file(text), offset_x |-> 0, offset_y |-> 0]
      [] outcome = "not_found" ->
            [ret |-> [tag |-> "Ok"], lines |-> BufferDefault, offset_x |-> 0, offset_y |-> 0]
      [] OTHER ->
            [ret |-> [tag |-> "Err"], lines |-> ls, offset_x |-> ox, offset_y |-> oy]

\* the key of an open_file call names what the file system answered
OpenKey(outcome) ==
    CASE outcome = "found" -> "open_file(found)"
      [] outcome = "not_found" -> "open_file(not_found)"
      [] OTHER -> "open_file(io_error)"

ApiOpenFile ==
    \E outcome \in OpenOutcomes, text \in OpenTexts :
        /\ driver = "open_api" /\ status = "running"
        /\ outcome # "found" => text = <<>>
        /\ key' = OpenKey(outcome)
        /\ LET r == open_file(lines, offset_x, offset_y, outcome, text)
           IN  /\ ret' = r.ret
               /\ lines' = r.lines
               /\ offset_x' = r.offset_x
               /\ offset_y' = r.offset_y
        /\ contents' = IF outcome = "found" THEN text ELSE contents
        /\ UNCHANGED <<driver, status, mode, cursor, viewed>>

-----------------------------------------------------------------------------
(* One Line called directly (driver "line_api"): the line is lines[1], the index
   argument of the last call is cursor.x *)

\* Line::insert(i, c)
LineApiInsert ==
    \E i \in 0..(MaxLineChars + 1), c \in LineChars :
        /\ driver = "line_api" /\ status = "running"
        /\ Len(lines[1].raw) < MaxLineChars
        /\ i <= grapheme_len(lines[1]) + 1
        /\ key' = "Line::insert"
        /\ cursor' = [x |-> i, y |-> 0]
        /\ IF LineInsertPanics(lines[1], i)
           THEN status' = "panicked" /\ UNCHANGED lines
           ELSE status' = "running" /\ lines' = <<LineInsert(lines[1], i, c)>>
        /\ UNCHANGED <<driver, contents, mode, offset_x, offset_y, viewed, ret>>

\* Line::remove(i)
LineApiRemove ==
    \E i \in 0..MaxLineChars :
        /\ driver = "line_api" /\ status = "running"
        /\ i <= grapheme_len(lines[1])
        /\ key' = "Line::remove"
        /\ cursor' = [x |-> i, y |-> 0]
        /\ IF LineRemovePanics(lines[1], i)
           THEN status' = "panicked" /\ UNCHANGED lines
           ELSE status' = "running" /\ lines' = <<LineRemove(lines[1], i)>>
        /\ UNCHANGED <<driver, contents, mode, offset_x, offset_y, viewed, ret>>

\* Line::push_str(s)
LineApiPushStr ==
    \E s \in PushStrs :
        /\ driver = "line_api" /\ status = "running"
        /\ Len(lines[1].raw) + Len(s) <= MaxLineChars
        /\ key' = "Line::push_str"
        /\ lines' = <<push_str(lines[1], s)>>
        /\ UNCHANGED <<driver, status, contents, mode, cursor, offset_x, offset_y, viewed, ret>>

-----------------------------------------------------------------------------

(* The standalone binary main.rs: its own Editor moves `location` itself,
   measuring rows with str::len (bytes) *)

\* main.rs Editor::move_left: line_len is read from the row the cursor is on,
\* before the row changes
main_move_left(loc, ls) ==
    LET line_len == ByteLen(line_at(ls, loc.y))
    IN  IF loc.x > 0 THEN [loc EXCEPT !.x = loc.x - 1]
        ELSE IF loc.y > 0 THEN [x |-> line_len, y |-> loc.y - 1]
        ELSE loc

\* main.rs Editor::move_right
main_move_right(loc, ls) ==
    LET line_len == ByteLen(line_at(ls, loc.y))
    IN  IF loc.x + 1 < line_len THEN [loc EXCEPT !.x = loc.x + 1]
        ELSE IF loc.y + 1 < line_count(ls) THEN [x |-> 0, y |-> loc.y + 1]
        ELSE loc

\* main.rs Editor::move_up
main_move_up(loc, ls) ==
    LET y == IF loc.y > 0 THEN loc.y - 1 ELSE loc.y
        line_len == ByteLen(line_at(ls, y))
    IN  [x |-> IF loc.x > line_len THEN line_len ELSE loc.x, y |-> y]

\* main.rs Editor::move_down
main_move_down(loc, ls) ==
    LET last_line == saturating_sub(line_count(ls), 1)
        y == IF loc.y < last_line THEN loc.y + 1 ELSE loc.y
        line_len == ByteLen(line_at(ls, y))
    IN  [x |-> IF loc.x >= line_len THEN line_len ELSE loc.x, y |-> y]

\* main.rs Editor::handle_cursor
main_handle_cursor(k, loc, ls) ==
    CASE k = "Left" -> main_move_left(loc, ls)
      [] k = "Right" -> main_move_right(loc, ls)
      [] k = "Up" -> main_move_up(loc, ls)
      [] k = "Down" -> main_move_down(loc, ls)
      [] OTHER -> loc

\* main.rs run: the arrow-key arm of Normal mode; the frame it renders is the
\* whole buffer, no viewport is involved
MainArrowKey ==
    \E k \in Arrows :
        /\ driver = "main_rs" /\ status = "running"
        /\ key' = k
        /\ cursor' = main_handle_cursor(k, cursor, lines)
        /\ UNCHANGED <<driver, status, mode, lines, offset_x, offset_y, viewed, contents, ret>>

-----------------------------------------------------------------------------

Next ==
    \/ NormalSetMode
    \/ NormalA
    \/ NormalDelete
    \/ ArrowKey
    \/ NormalSave
    \/ NormalQuit
    \/ OtherKey
    \/ EscKey
    \/ EditNewline
    \/ EditTab
    \/ EditChar
    \/ EditBackspace
    \/ ApiInsertChar
    \/ ApiDeleteChar
    \/ ApiReadFile
    \/ ApiBufferToString
    \/ LineApiInsert
    \/ LineApiRemove
    \/ LineApiPushStr
    \/ ApiOpenFile
    \/ MainArrowKey

Spec == Init /\ [][Next]_vars

-----------------------------------------------------------------------------
(* Properties *)

NoCarriageReturn(text) == \A i \in 1..Len(text) : text[i] # "CR"

\* a buffer_to_string call that directly follows a read_file call
SerializesLoaded ==
    /\ driver = "file_api"
    /\ key = "read_file"
    /\ key' = "buffer_to_string"

\* C1: for every text T without a carriage return, read_file on T followed by
\* buffer_to_string() returns exactly T, trailing newline or not.
C1_RoundTrip ==
    [][SerializesLoaded /\ NoCarriageReturn(contents) => ret'.text = contents]_vars

\* the cursor is inside the document, in grapheme columns
CursorInDocument ==
    /\ cursor.y < line_count(lines)
    /\ cursor.x <= grapheme_len(lines[cursor.y + 1])

\* C2: after every processed key event, in every mode, cursor.y < line_count and
\* cursor.x <= grapheme_len of the cursor's row.
C2_CursorInDocument ==
    driver \in EditorDrivers /\ status = "running" => CursorInDocument

\* C3: the buffer is never empty: after any sequence of key events and after any
\* sequence of insert_char / delete_char calls, line_count >= 1.
C3_NeverEmpty == line_count(lines) >= 1

\* C3 witness: Backspace at the end of row 0 of the loaded two-line file has joined
\* row 1 onto it, leaving a single line
C3_Witness ==
    /\ driver \in EditorDrivers
    /\ key = "Backspace"
    /\ line_count(lines) = 1
    /\ lines[1].raw = <<"a", "a", "a", "acute">>

\* the last key event ran the viewport recompute to its end
Recomputed == driver \in EditorDrivers /\ status = "running" /\ viewed

\* C4: after every viewport recompute, offset_y <= cursor.y < offset_y + visible_rows,
\* offset_x <= cursor.x, and offset_x does not exceed the grapheme length of the
\* cursor's current line.
C4_ViewHoldsCursorRow ==
    Recomputed =>
        /\ offset_y <= cursor.y
        /\ cursor.y < offset_y + Rows
        /\ offset_x <= cursor.x
        /\ offset_x <= grapheme_len(lines[cursor.y + 1])

\* C5: after every viewport recompute the viewport contains the cursor
\* horizontally: offset_x <= cursor.x < offset_x + visible_columns.
C5_ViewHoldsCursorColumn ==
    Recomputed => offset_x <= cursor.x /\ cursor.x < offset_x + Cols

\* the step processes key event k in mode m
KeyStep(m, k) == driver \in EditorDrivers /\ status = "running" /\ mode = m /\ key' = k

\* C6: the initial mode is Normal; in Normal ':' leads to Command, 'i' to Insert
\* and 'v' to Visual; in Insert, Command and Visual escape leads to Normal; none
\* of these transitions changes the buffer or the cursor.
C6_ModeTable ==
    /\ mode = "Normal"
    /\ [][/\ KeyStep("Normal", ":") => mode' = "Command"
          /\ KeyStep("Normal", "i") => mode' = "Edit"
          /\ KeyStep("Normal", "v") => mode' = "Visual"
          /\ \A m \in {"Edit", "Command", "Visual"} : KeyStep(m, "Esc") => mode' = "Normal"
          /\ (\/ \E k \in {":", "i", "v"} : KeyStep("Normal", k)
              \/ \E m \in {"Edit", "Command", "Visual"} : KeyStep(m, "Esc"))
             => lines' = lines /\ cursor' = cursor /\ status' = "running"]_vars

\* C6 witness: escape has been processed outside Normal mode (only there does it
\* recompute the viewport) and the editor is in Normal mode
C6_Witness == Recomputed /\ key = "Esc" /\ mode = "Normal"

\* the keys the transition table lists for a mode (every Key::Char but '\n' and
\* '\t' is a printable character)
Listed(m) ==
    CASE m = "Normal" -> {":", "a", "i", "x", "s", "v", "Ctrl-s", "Ctrl-q"} \cup Arrows
      [] m = "Edit" -> {":", "a", "i", "x", "s", "v", "acute", "Enter", "Tab",
                        "Backspace", "Esc"} \cup Arrows
      [] OTHER -> {"Esc"}

\* C7: every key the table does not list for the current mode is a no-op: mode,
\* buffer, cursor and viewport offsets are unchanged and the session goes on.
C7_UnlistedKeysAreNoOps ==
    [][(\E k \in Keys \ Listed(mode) : KeyStep(mode, k))
       => /\ UNCHANGED <<mode, lines, cursor, offset_x, offset_y>>
          /\ status' = "running"]_vars

\* C7 witness: the quit chord has been processed in Visual mode and the session runs
C7_Witness ==
    driver \in EditorDrivers /\ mode = "Visual" /\ key = "Ctrl-q" /\ status = "running"

\* the grapheme clusters of a line, in order
Clusters(line) == [i \in 1..grapheme_len(line) |-> grapheme_at(line, i - 1)]

RECURSIVE Concat(_)
Concat(seqs) == IF Len(seqs) = 0 THEN <<>> ELSE Head(seqs) \o Concat(Tail(seqs))

\* the line without its grapheme i (0-based)
WithoutCluster(line, i) ==
    LET cs == Clusters(line)
    IN  from_string(Concat(SubSeq(cs, 1, i) \o SubSeq(cs, i + 2, Len(cs))))

\* the lines with row y + 1 appended to row y and removed
RowsJoined(ls, y) ==
    SubSeq(ls, 1, y) \o <<from_string(ls[y + 1].raw \o ls[y + 2].raw)>>
        \o SubSeq(ls, y + 3, Len(ls))

\* C8: in Insert mode backspace deletes the grapheme before the cursor and moves
\* the cursor one column left; at column 0 of a row y > 0 it joins row y onto the
\* end of row y-1 and puts the cursor at the join point; at (0,0) it changes
\* nothing; the mode stays Insert.
C8_BackspaceDeletesBefore ==
    [][KeyStep("Edit", "Backspace") /\ CursorInDocument
       => /\ mode' = "Edit"
          /\ cursor.x > 0
             => /\ lines' = [lines EXCEPT ![cursor.y + 1] = WithoutCluster(@, cursor.x - 1)]
                /\ cursor' = [cursor EXCEPT !.x = @ - 1]
          /\ cursor.x = 0 /\ cursor.y > 0
             => /\ lines' = RowsJoined(lines, cursor.y - 1)
                /\ cursor' = [x |-> grapheme_len(lines[cursor.y]), y |-> cursor.y - 1]
          /\ cursor.x = 0 /\ cursor.y = 0
             => lines' = lines /\ cursor' = cursor]_vars

\* C9: in Normal mode 'x' and 's' delete under the cursor: the grapheme at
\* cursor.x when there is one, else the next row is appended to the cursor row
\* and removed, else (end of the last row) nothing; the cursor and all other
\* rows are unchanged; 'x' stays in Normal and 's' ends in Insert.
C9_DeleteUnderCursor ==
    [][\A k \in {"x", "s"} :
         KeyStep("Normal", k)
         => LET row == lines[cursor.y + 1]
            IN  /\ cursor' = cursor
                /\ status' = "running"
                /\ mode' = IF k = "s" THEN "Edit" ELSE "Normal"
                /\ cursor.x < grapheme_len(row)
                   => lines' = [lines EXCEPT ![cursor.y + 1] = WithoutCluster(@, cursor.x)]
                /\ cursor.x = grapheme_len(row) /\ cursor.y + 1 < line_count(lines)
                   => lines' = RowsJoined(lines, cursor.y)
                /\ cursor.x = grapheme_len(row) /\ cursor.y + 1 = line_count(lines)
                   => lines' = lines]_vars

\* C9 witness: 'x' at the end of row 0 of the loaded two-line file has appended
\* row 1 to it; the cursor still stands at column 2, before the joined text
C9_Witness ==
    /\ driver \in EditorDrivers
    /\ key = "x"
    /\ mode = "Normal"
    /\ cursor = [x |-> 2, y |-> 0]
    /\ line_count(lines) = 1
    /\ lines[1].raw = <<"a", "a", "a", "acute">>

\* C10: in Insert mode a printable character is inserted at the cursor's grapheme
\* column and the cursor advances by one: the row's grapheme length has grown by
\* one, the character is the grapheme at the old cursor.x, all other rows are
\* unchanged and the mode is still Insert.
C10_InsertAdvancesOneGrapheme ==
    [][\A c \in InsertChars :
         KeyStep("Edit", c) /\ CursorInDocument
         => /\ status' = "running"
            /\ mode' = "Edit"
            /\ cursor' = [cursor EXCEPT !.x = @ + 1]
            /\ line_count(lines') = line_count(lines)
            /\ \A i \in 1..Len(lines) : i # cursor.y + 1 => lines'[i] = lines[i]
            /\ grapheme_len(lines'[cursor.y + 1]) = grapheme_len(lines[cursor.y + 1]) + 1
            /\ grapheme_at(lines'[cursor.y + 1], cursor.x) = <<c>>]_vars

\* the line made of graphemes i..j (1-based, inclusive) of a line
ClusterRange(line, i, j) == from_string(Concat(SubSeq(Clusters(line), i, j)))

\* C11: in Insert mode newline splits the cursor row at the cursor's grapheme
\* column: line_count grows by one, row y holds the graphemes before the cursor,
\* the new row y+1 those from the cursor onward, every other row keeps its
\* content, the cursor moves to column 0 of row y+1 and the mode stays Insert.
C11_NewlineSplitsAtCursor ==
    [][KeyStep("Edit", "Enter") /\ CursorInDocument
       => LET row == lines[cursor.y + 1]
          IN  /\ status' = "running"
              /\ mode' = "Edit"
              /\ cursor' = [x |-> 0, y |-> cursor.y + 1]
              /\ line_count(lines') = line_count(lines) + 1
              /\ lines'[cursor.y + 1] = ClusterRange(row, 1, cursor.x)
              /\ lines'[cursor.y + 2] = ClusterRange(row, cursor.x + 1, grapheme_len(row))
              /\ \A i \in 1..cursor.y : lines'[i] = lines[i]
              /\ \A i \in (cursor.y + 2)..Len(lines) : lines'[i + 1] = lines[i]]_vars

\* C12: in Normal mode 'a' advances the cursor by one grapheme column before the
\* end of its row, wraps to column 0 of the next row at the end of a row that has
\* a next row, otherwise leaves the cursor; it enters Insert mode, leaves the
\* buffer unchanged, and cursor.x never exceeds the grapheme length of its row.
C12_AppendAdvancesOneGrapheme ==
    [][KeyStep("Normal", "a") /\ CursorInDocument
       => LET len == grapheme_len(lines[cursor.y + 1])
          IN  /\ status' = "running"
              /\ mode' = "Edit"
              /\ lines' = lines
              /\ cursor.x < len => cursor' = [cursor EXCEPT !.x = @ + 1]
              /\ cursor.x = len /\ cursor.y + 1 < line_count(lines)
                 => cursor' = [x |-> 0, y |-> cursor.y + 1]
              /\ cursor.x = len /\ cursor.y + 1 = line_count(lines) => cursor' = cursor
              /\ cursor'.x <= grapheme_len(lines'[cursor'.y + 1])]_vars

RECURSIVE Spaces(_)
\* n space characters
Spaces(n) == IF n = 0 THEN <<>> ELSE <<" ">> \o Spaces(n - 1)

\* C13: in Insert mode tab inserts only space characters at the cursor, exactly
\* 4 - (cursor.x mod 4) of them, and leaves cursor.x at the smallest multiple of 4
\* greater than its old value; the text that was right of the cursor stays right
\* of the cursor and the mode stays Insert.
C13_TabExpandsToSpaces ==
    [][KeyStep("Edit", "Tab") /\ CursorInDocument
       => LET row == lines[cursor.y + 1]
              row2 == lines'[cursor.y + 1]
              n == 4 - (cursor.x % 4)
              before == ClusterRange(row, 1, cursor.x).raw
              after == ClusterRange(row, cursor.x + 1, grapheme_len(row)).raw
          IN  /\ status' = "running"
              /\ mode' = "Edit"
              /\ n \in 1..4
              /\ cursor' = [cursor EXCEPT !.x = @ + n]
              /\ cursor'.x % 4 = 0
              /\ lines' = [lines EXCEPT ![cursor.y + 1] = from_string(before \o Spaces(n) \o after)]
              /\ ClusterRange(row2, cursor'.x + 1, grapheme_len(row2)).raw = after]_vars

\* the step is a direct call of Buffer::delete_char at Location (x, y)
DeleteCharAt(x, y) ==
    /\ driver = "buffer_api"
    /\ status = "running"
    /\ key' = "delete_char"
    /\ cursor' = [x |-> x, y |-> y]

InsertedAtOrigin ==
    /\ driver = "buffer_api"
    /\ status = "running"
    /\ key = "insert_char"
    /\ cursor = [x |-> 0, y |-> 0]
    /\ Len(lines[1].raw) = 1

\* C15: on a buffer whose line 0 is empty, insert_char at Location (0,0) followed
\* by delete_char at the same Location (0,0) returns true and leaves line 0 empty.
C15_InsertThenDeleteAtOrigin ==
    [][InsertedAtOrigin /\ DeleteCharAt(0, 0)
       => /\ ret' = [tag |-> "bool", val |-> TRUE]
          /\ lines'[1].raw = <<>>]_vars

\* C16: delete_char at a valid Location other than (0,0) returns true and removes
\* exactly one unit: for x > 0 the single grapheme at index x-1 of line y, keeping
\* line_count; for x = 0 and y > 0 line y, whose whole text is appended to line
\* y-1, line_count decreasing by one; all other lines are unchanged.
C16_DeleteCharRemovesOneUnit ==
    [][/\ DeleteCharAt(cursor'.x, cursor'.y)
       /\ cursor' # [x |-> 0, y |-> 0]
       /\ cursor'.y < line_count(lines)
       /\ cursor'.x <= grapheme_len(lines[cursor'.y + 1])
       => /\ status' = "running"
          /\ ret' = [tag |-> "bool", val |-> TRUE]
          /\ cursor'.x > 0
             => /\ lines' = [lines EXCEPT ![cursor'.y + 1] = WithoutCluster(@, cursor'.x - 1)]
                /\ line_count(lines') = line_count(lines)
          /\ cursor'.x = 0
             => /\ lines' = RowsJoined(lines, cursor'.y - 1)
                /\ line_count(lines') = line_count(lines) - 1]_vars

\* C16 witness: delete_char at (0,1) has returned true and joined row "a\u{301}"
\* of the loaded file onto row "aa"
C16_Witness ==
    /\ driver = "buffer_api"
    /\ key = "delete_char"
    /\ cursor = [x |-> 0, y |-> 1]
    /\ ret = [tag |-> "bool", val |-> TRUE]
    /\ line_count(lines) = 1
    /\ lines[1].raw = <<"a", "a", "a", "acute">>

RECURSIVE NewlineSeparated(_, _)
\* the raw texts of lines 1..n of a buffer, a single newline between neighbours
NewlineSeparated(ls, n) ==
    IF n = 0 THEN <<>>
    ELSE IF n = 1 THEN ls[1].raw
    ELSE NewlineSeparated(ls, n - 1) \o <<"LF">> \o ls[n].raw

\* buffer_to_string has just returned
Serialized == driver = "file_api" /\ key = "buffer_to_string" /\ ret.tag = "string"

\* C17: for a buffer of at least two lines whose last line is empty,
\* buffer_to_string() emits nothing for that last line: the result is the
\* preceding lines joined by single newlines, with no trailing newline.
C17_FinalEmptyLineIgnored ==
    /\ Serialized
    /\ line_count(lines) >= 2
    /\ lines[line_count(lines)].raw = <<>>
    => ret.text = NewlineSeparated(lines, line_count(lines) - 1)

\* C17 witness: the buffer ["a", ""] loaded from "a\n" has been serialized to "a"
C17_Witness ==
    /\ Serialized
    /\ contents = <<"a", "LF">>
    /\ line_count(lines) = 2
    /\ ret.text = <<"a">>

\* the number of newline characters in a text
NewlineCount(text) == Cardinality({i \in 1..Len(text) : text[i] = "LF"})

\* read_file has just returned: the buffer holds what it made of contents
Loaded == driver = "file_api" /\ key = "read_file"

\* C18: read_file on a text T without carriage returns produces
\* line_count = (number of newlines in T) + 1: a text ending in a newline yields a
\* trailing empty line, an empty file exactly one empty line, and no line
\* contains a newline.
C18_ReadFileLineCount ==
    Loaded /\ NoCarriageReturn(contents)
    => /\ line_count(lines) = NewlineCount(contents) + 1
       /\ ends_with_newline(contents) => lines[line_count(lines)].raw = <<>>
       /\ contents = <<>> => lines = <<[raw |-> <<>>, graphemes |-> <<0>>]>>
       /\ \A i \in 1..Len(lines) : NewlineCount(lines[i].raw) = 0

\* C18 witness: "a\na\n" has been loaded as three lines, the last one empty
C18_Witness ==
    /\ Loaded
    /\ contents = <<"a", "LF", "a", "LF">>
    /\ line_count(lines) = 3
    /\ lines[3].raw = <<>>

\* the byte offsets at which a grapheme cluster of raw starts (UAX #29), and len(raw)
ClusterBounds(raw) ==
    {ByteOffset(raw, k) : k \in {j \in 0..(Len(raw) - 1) : j = 0 \/ GraphemeBreak(raw, j + 1)}}
        \cup {ByteLen(raw)}

\* the boundary index of a line is in sync with its raw text
InSync(line) ==
    LET g == line.graphemes
        n == Len(g)
    IN  /\ n = grapheme_len(line) + 1
        /\ g[1] = 0
        /\ g[n] = ByteLen(line.raw)
        /\ \A i \in 1..(n - 1) : g[i] < g[i + 1]
        /\ {g[i] : i \in 1..n} = ClusterBounds(line.raw)
        /\ \A i \in 0..(n - 2) :
              grapheme_at(line, i) = SubSeq(line.raw, CharIndex(line.raw, g[i + 1]) + 1,
                                            CharIndex(line.raw, g[i + 2]))
        /\ \A i \in (n - 1)..(n + 1) : grapheme_at(line, i) = None

LineCall(op) == driver = "line_api" /\ status = "running" /\ key' = op /\ status' = "running"

\* every grapheme_at(i), i < grapheme_len(), is a non-empty single grapheme cluster
WholeClusters(line) ==
    \A i \in 0..(grapheme_len(line) - 1) :
        LET g == grapheme_at(line, i)
        IN  /\ g # None
            /\ Len(g) >= 1
            /\ \A k \in 2..Len(g) : ~GraphemeBreak(g, k)

Standalone(raw) == \A k \in 1..Len(raw) : GraphemeClass(raw[k]) = "Other"

IsEmojiCluster(line) ==
    /\ grapheme_len(line) = 1
    /\ Len(line.raw) > 1
    /\ \E k \in 1..Len(line.raw) : line.raw[k] = "zwj"
    /\ line.raw[1] = "woman"

C22_RescrollIdempotent ==
    [][Recomputed /\ Recomputed' /\ cursor' = cursor /\ lines' = lines
       => offset_x' = offset_x /\ offset_y' = offset_y]_vars

\* the dispatch loop of handle_keys has rendered the current state: render is the
\* last call of every key event, and run() renders before the first one
Rendered == driver = "handle_keys" /\ status = "running"

\* the frame on the screen
Frame == render(lines, offset_x, offset_y)

\* C23: render produces one row per buffer line in
\* [offset_y, min(offset_y + height, line_count)), in document order, each row
\* exactly the graphemes of that line in columns
\* [offset_x, min(offset_x + width, line_len)), empty when the line is shorter
\* than offset_x; no row beyond the buffer's line count, no cluster cut.
C23_RenderShowsWindow ==
    Rendered
    => LET last == Min(offset_y + Rows, line_count(lines))
       IN  /\ Len(Frame) = last - offset_y
           /\ \A i \in 1..Len(Frame) :
                 LET line == lines[offset_y + i]
                 IN  Frame[i] = ClusterRange(line, offset_x + 1,
                                             Min(offset_x + Cols, grapheme_len(line))).raw

\* C23 witness: with offset_x = 1 the frame shows an empty row for the empty line
\* and the whole clusters "a", "a\u{301}" of columns 1 and 2 of "aaa\u{301}"
C23_Witness ==
    /\ Rendered
    /\ offset_x = 1
    /\ offset_y = 0
    /\ line_count(lines) = 2
    /\ lines[1].raw = <<>>
    /\ lines[2].raw = <<"a", "a", "a", "acute">>
    /\ Frame = << <<>>, <<"a", "a", "acute">> >>

\* the step is a call of open_file that met the given outcome
OpenFileCall(outcome) == driver = "open_api" /\ status = "running" /\ key' = OpenKey(outcome)

\* C24: open_file distinguishes its outcomes: when the path does not exist the
\* open succeeds and the buffer becomes a single empty line; when reading fails
\* for another reason the error is returned and the lines are left as they were;
\* on every successful open the viewport offsets are reset to (0,0).
C24_OpenFileOutcomes ==
    [][/\ OpenFileCall("not_found")
          => ret' = [tag |-> "Ok"] /\ lines' = <<[raw |-> <<>>, graphemes |-> <<0>>]>>
       /\ OpenFileCall("io_error")
          => ret' = [tag |-> "Err"] /\ lines' = lines
       /\ OpenFileCall("found") => ret' = [tag |-> "Ok"]
       /\ (OpenFileCall("found") \/ OpenFileCall("not_found"))
          => offset_x' = 0 /\ offset_y' = 0]_vars

\* C24 witness: open_file on a missing path has succeeded on an editor whose
\* cursor stood at column Cols with the viewport scrolled: one empty line is
\* left and the offsets are back at (0,0)
C24_Witness ==
    /\ driver = "open_api"
    /\ key = "open_file(not_found)"
    /\ ret = [tag |-> "Ok"]
    /\ cursor = [x |-> Cols, y |-> 0]
    /\ lines = <<[raw |-> <<>>, graphemes |-> <<0>>]>>
    /\ offset_x = 0
    /\ offset_y = 0

\* C25: the save chord in Normal mode writes buffer_to_string() to the current
\* path and leaves buffer, cursor and mode unchanged; when the write fails only
\* the save is aborted: the session goes on in Normal mode and later key events
\* are still processed.
C25_SaveFailureKeepsSession ==
    [][KeyStep("Normal", "Ctrl-s")
       => /\ lines' = lines
          /\ cursor' = cursor
          /\ mode' = "Normal"
          /\ status' = "running"
          /\ ret' # NoRet => ret' = [tag |-> "write", text |-> buffer_to_string(lines)]]_vars

\* a Left key handled by either editor: the library's loop or main.rs
LeftStep ==
    /\ driver \in EditorDrivers \cup {"main_rs"}
    /\ status = "running" /\ status' = "running"
    /\ key' = "Left"

\* C26: move_left at column 0 of a row y > 0 puts the cursor at the end of row
\* y-1 (x = the grapheme length of row y-1); with x > 0 it decreases x by one;
\* at (0,0) it does nothing; the buffer is unchanged in all three cases
C26_MoveLeftWrapsToPreviousEnd ==
    [][LeftStep
       => /\ lines' = lines
          /\ cursor' = IF cursor.x > 0 THEN [x |-> cursor.x - 1, y |-> cursor.y]
                       ELSE IF cursor.y > 0
                            THEN [x |-> grapheme_len(lines[cursor.y]), y |-> cursor.y - 1]
                            ELSE cursor]_vars

\* a key event of the editor loop that changed the buffer or the cursor position
Mutated ==
    /\ driver \in EditorDrivers
    /\ status = "running" /\ status' = "running"
    /\ (lines' # lines \/ cursor' # cursor)

\* C27: for every (mode, key) whose action changes the buffer or the cursor, the
\* viewport recompute runs after the mutation and before the render of that key
\* event: the offsets of the frame are those update_view computes from the
\* buffer and cursor after the mutation
C27_RescrollAfterMutation ==
    [][Mutated
       => /\ viewed'
          /\ offset_x' = update_view(lines', cursor', offset_x, offset_y).offset_x
          /\ offset_y' = update_view(lines', cursor', offset_x, offset_y).offset_y]_vars

\* a key event handled by the editor loop
EditorStep == driver \in EditorDrivers /\ status = "running"

\* the row update_view reads after the event's mutation: lines[new_offset_y]
ViewRow == maybe_scroll(cursor', offset_x, offset_y).y

\* C28: no key sequence makes the viewport code index outside the buffer: the
\* row update_view reads at the newly computed offset_y and the first row of the
\* slice render takes are both below line_count, also right after a forward
\* delete or a backspace removed a line
C28_ViewportInsideBuffer ==
    [][EditorStep
       => /\ ViewRow < line_count(lines')
          /\ offset_y' < line_count(lines')
          /\ ~render_panics(lines', offset_y')]_vars

\* right after a forward delete that removed a line: 'x' at column 0 of row 1
\* changes the buffer, and the two rows of the loaded file are what it leaves only
\* when row 1 was empty and the third row was joined into it
C28_Witness ==
    /\ driver \in EditorDrivers /\ status = "running"
    /\ key = "x" /\ viewed
    /\ lines = read_file(<<"a", "a", "LF", "a", "acute">>)
    /\ cursor = [x |-> 0, y |-> 1]
    /\ offset_y < line_count(lines)

====
